---- MODULE Spec2Model ----
(***************************************************************************)
(* The value model of jsongoparser (ast.go): the six node variants, the    *)
(* number classifier NewNumberLiteral and the accessors TokenLiteral(),    *)
(* String() and IsValidNumber().                                           *)
(*                                                                         *)
(* A Go string is a sequence of one-character strings.  An int64/uint64 is *)
(* kept at its width: a magnitude is a sequence of 15-bit limbs, most      *)
(* significant first (<<>> is 0), and the 2^63 / 2^64 limits of strconv    *)
(* are compared against explicitly.  A float64 is a record         *)
(* [kind, neg, mant, exp] standing for (-1)^neg * mant * 2^exp with mant   *)
(* odd (or <<>> for zero), kind "fin", "inf" or "nan".                     *)
(*                                                                         *)
(* nodes is the heap of constructed nodes (a node's identity is its index, *)
(* containers hold the indices of their children); ret is the last         *)
(* call: [op, self, arg, val, flag], with arg the argument of              *)
(* NewNumberLiteral, val the string TokenLiteral() or String() returned    *)
(* and flag the boolean IsValidNumber() returned (sequences of length 0 or *)
(* 1).                                                                     *)
(***************************************************************************)
EXTENDS Integers, Sequences, FiniteSets, TLC

VARIABLES nodes, ret

vars == <<nodes, ret>>

(***************************************************************************)
(* Arbitrary-width naturals: sequences of 15-bit limbs, most significant   *)
(* first, without leading zero limbs (<<>> is 0).                          *)
(***************************************************************************)
LimbBits == 3 * 5

Base == 2 ^ LimbBits

Zero == <<>>

One == <<1>>

Front(b) == SubSeq(b, 1, Len(b) - 1)

Last(b) == b[Len(b)]

Max(a, b) == IF a >= b THEN a ELSE b

RECURSIVE Norm(_)
Norm(b) == IF b = <<>> \/ b[1] # 0 THEN b ELSE Norm(Tail(b))

\* a * m + c, for 0 <= m <= Base and 0 <= c < Base
RECURSIVE MulAdd(_, _, _)
MulAdd(a, m, c) ==
    IF a = <<>>
    THEN (IF c = 0 THEN <<>> ELSE <<c>>)
    ELSE LET t == Last(a) * m + c
         IN  Append(MulAdd(Front(a), m, t \div Base), t % Base)

\* [q, r] with a = q * d + r and 0 <= r < d, for 0 < d <= Base
RECURSIVE DivSmallRaw(_, _)
DivSmallRaw(a, d) ==
    IF a = <<>>
    THEN [q |-> <<>>, r |-> 0]
    ELSE LET p   == DivSmallRaw(Front(a), d)
             cur == p.r * Base + Last(a)
         IN  [q |-> Append(p.q, cur \div d), r |-> cur % d]

DivSmall(a, d) == LET p == DivSmallRaw(a, d) IN [q |-> Norm(p.q), r |-> p.r]

BigLess(a, b) ==
    \/ Len(a) < Len(b)
    \/ /\ Len(a) = Len(b)
       /\ \E i \in 1..Len(a) : a[i] < b[i] /\ \A j \in 1..(i - 1) : a[j] = b[j]

BigOfInt(n) == Norm(<<n \div Base, n % Base>>)

\* the value of a magnitude below 2^30 as a model integer
IntOfBig(b) ==
    IF b = <<>> THEN 0 ELSE IF Len(b) = 1 THEN b[1] ELSE b[1] * Base + b[2]

RECURSIVE SmallBitLen(_)
SmallBitLen(x) == IF x = 0 THEN 0 ELSE 1 + SmallBitLen(x \div 2)

BitLen(a) == IF a = <<>> THEN 0 ELSE LimbBits * (Len(a) - 1) + SmallBitLen(a[1])

\* a * 2^k
Shl(a, k) ==
    IF a = <<>>
    THEN a
    ELSE MulAdd(a, 2 ^ (k % LimbBits), 0) \o [i \in 1..(k \div LimbBits) |-> 0]

\* [q, nz]: q = a \div 2^k, nz says whether a bit was shifted out
Shr(a, k) ==
    LET w  == k \div LimbBits
        hi == SubSeq(a, 1, Len(a) - w)
        lo == SubSeq(a, Max(Len(a) - w, 0) + 1, Len(a))
        d  == DivSmall(hi, 2 ^ (k % LimbBits))
    IN  [q |-> d.q, nz |-> d.r # 0 \/ \E i \in 1..Len(lo) : lo[i] # 0]

IsOdd(a) == a # <<>> /\ Last(a) % 2 = 1

RECURSIVE SmallTrailingZeros(_)
SmallTrailingZeros(x) == IF x % 2 = 1 THEN 0 ELSE 1 + SmallTrailingZeros(x \div 2)

RECURSIVE TrailingZeros(_)
TrailingZeros(a) ==
    IF a = <<>>
    THEN 0
    ELSE IF Last(a) = 0
    THEN LimbBits + TrailingZeros(Front(a))
    ELSE SmallTrailingZeros(Last(a))

\* a - 1, for a > 0
RECURSIVE PredRaw(_)
PredRaw(a) ==
    IF Last(a) > 0
    THEN Append(Front(a), Last(a) - 1)
    ELSE Append(PredRaw(Front(a)), Base - 1)

Pred(a) == Norm(PredRaw(a))

RECURSIVE MulPow10(_, _)
MulPow10(a, k) == IF k = 0 THEN a ELSE MulPow10(MulAdd(a, 10, 0), k - 1)

\* [q, nz]: q = a \div 10^k, nz says whether the division left a remainder
RECURSIVE DivPow10(_, _)
DivPow10(a, k) ==
    IF k = 0
    THEN [q |-> a, nz |-> FALSE]
    ELSE LET d == DivSmall(a, 10)
             p == DivPow10(d.q, k - 1)
         IN  [q |-> p.q, nz |-> p.nz \/ d.r # 0]

(***************************************************************************)
(* float64: round-to-nearest-even, 53 significant bits, least exponent     *)
(* -1074 (denormals), overflow at 2^1024.  err is "nil" or "range".        *)
(***************************************************************************)
MkFin(neg, m, e) ==
    IF m = <<>>
    THEN [kind |-> "fin", neg |-> neg, mant |-> <<>>, exp |-> 0]
    ELSE [kind |-> "fin", neg |-> neg, mant |-> Shr(m, TrailingZeros(m)).q,
          exp |-> e + TrailingZeros(m)]

Inf(neg) == [kind |-> "inf", neg |-> neg, mant |-> <<>>, exp |-> 0]

NaN == [kind |-> "nan", neg |-> FALSE, mant |-> <<>>, exp |-> 0]

\* the zero value of a float64 field
FloatZero == MkFin(FALSE, <<>>, 0)

\* the float64 nearest to (q + x) * 2^e, where 0 <= x < 1 and x > 0 iff sticky
RoundBits(neg, q, e, sticky) ==
    LET L    == BitLen(q)
        lsb  == Max((L - 1 + e) - 52, -1074)
        drop == lsb - e
        h    == Shr(q, drop - 1)
        m    == IF IsOdd(h.q) /\ (h.nz \/ sticky \/ IsOdd(Shr(h.q, 1).q))
                THEN MulAdd(Shr(h.q, 1).q, 1, 1)
                ELSE Shr(h.q, 1).q
    IN  IF drop <= 0
        THEN (IF L + e > 1024
              THEN [f |-> Inf(neg), err |-> "range"]
              ELSE [f |-> MkFin(neg, q, e), err |-> "nil"])
        ELSE IF drop > L
        THEN [f |-> MkFin(neg, <<>>, 0), err |-> "nil"]
        ELSE IF BitLen(m) + lsb > 1024
        THEN [f |-> Inf(neg), err |-> "range"]
        ELSE [f |-> MkFin(neg, m, lsb), err |-> "nil"]

\* the float64 nearest to m * 2^p2 * 10^p10
RoundScaled(neg, m, p2, p10) ==
    IF m = <<>>
    THEN [f |-> MkFin(neg, <<>>, 0), err |-> "nil"]
    ELSE IF p10 >= 0
    THEN RoundBits(neg, MulPow10(m, p10), p2, FALSE)
    ELSE LET s == 56 + 4 * (-p10)
             d == DivPow10(Shl(m, s), -p10)
         IN  RoundBits(neg, d.q, p2 - s, d.nz)

(***************************************************************************)
(* int64 values: [neg, mag], zero is never negative.                       *)
(***************************************************************************)
MkInt(neg, mag) == [neg |-> neg /\ mag # <<>>, mag |-> mag]

\* the zero value of an int64 field
IntZero == MkInt(FALSE, Zero)

\* the int64 of a small model integer
I64(n) == IF n < 0 THEN MkInt(TRUE, BigOfInt(-n)) ELSE MkInt(FALSE, BigOfInt(n))

\* a conversion that drops the low bits instead of rounding to nearest
Float64OfIntTruncating(i) ==
    MkFin(i.neg, Shl(Shr(i.mag, Max(BitLen(i.mag) - 53, 0)).q, Max(BitLen(i.mag) - 53, 0)), 0)

\* the conversion float64(i) of NewNumberLiteral
Float64OfInt(i) == RoundBits(i.neg, i.mag, 0, FALSE).f

\* a finite float64 that is a whole number, as an int64-shaped value
FloatIsWhole(f) == f.kind = "fin" /\ f.exp >= 0

WholeOfFloat(f) == MkInt(f.neg, Shl(f.mant, f.exp))

(***************************************************************************)
(* Characters.                                                             *)
(***************************************************************************)
DigitChars == <<"0", "1", "2", "3", "4", "5", "6", "7", "8", "9">>

UpperChars == <<"A", "B", "C", "D", "E", "F", "G", "H", "I", "J", "K", "L", "M",
                "N", "O", "P", "Q", "R", "S", "T", "U", "V", "W", "X", "Y", "Z">>

LowerChars == <<"a", "b", "c", "d", "e", "f", "g", "h", "i", "j", "k", "l", "m",
                "n", "o", "p", "q", "r", "s", "t", "u", "v", "w", "x", "y", "z">>

IsDigit(c) == \E i \in 1..10 : DigitChars[i] = c

DigitVal(c) == (CHOOSE i \in 1..10 : DigitChars[i] = c) - 1

Lower(c) ==
    IF \E i \in 1..26 : UpperChars[i] = c
    THEN LowerChars[CHOOSE i \in 1..26 : UpperChars[i] = c]
    ELSE c

IsHexLetter(c) == \E i \in 1..6 : LowerChars[i] = Lower(c)

HexLetterVal(c) == (CHOOSE i \in 1..6 : LowerChars[i] = Lower(c)) + 9

(***************************************************************************)
(* strconv.ParseInt(s, 10, 64), by way of ParseUint(s, 10, 64).            *)
(***************************************************************************)
MaxUint64 == Pred(Shl(One, 64))

\* the smallest number such that cutoff*10 > MaxUint64
UintCutoff == MulAdd(DivSmall(MaxUint64, 10).q, 1, 1)

\* 1 << 63
IntCutoff == Shl(One, 63)

RECURSIVE UintLoop(_, _, _)
UintLoop(s, i, n) ==
    IF i > Len(s)
    THEN [n |-> n, err |-> "nil"]
    ELSE IF ~IsDigit(s[i])
    THEN [n |-> Zero, err |-> "syntax"]
    ELSE IF ~BigLess(n, UintCutoff)
    THEN [n |-> MaxUint64, err |-> "range"]
    ELSE LET n1 == MulAdd(n, 10, DigitVal(s[i]))
         IN  IF BigLess(MaxUint64, n1)
             THEN [n |-> MaxUint64, err |-> "range"]
             ELSE UintLoop(s, i + 1, n1)

ParseUint(s) ==
    IF s = <<>> THEN [n |-> Zero, err |-> "syntax"] ELSE UintLoop(s, 1, Zero)

ParseInt(s0) ==
    IF s0 = <<>>
    THEN [i |-> IntZero, err |-> "syntax"]
    ELSE LET neg == s0[1] = "-"
             s   == IF s0[1] \in {"+", "-"} THEN Tail(s0) ELSE s0
             u   == ParseUint(s)
         IN  IF u.err = "syntax"
             THEN [i |-> IntZero, err |-> "syntax"]
             ELSE IF ~neg /\ ~BigLess(u.n, IntCutoff)
             THEN [i |-> MkInt(FALSE, Pred(IntCutoff)), err |-> "range"]
             ELSE IF neg /\ BigLess(IntCutoff, u.n)
             THEN [i |-> MkInt(TRUE, IntCutoff), err |-> "range"]
             ELSE [i |-> MkInt(neg, u.n), err |-> "nil"]

(***************************************************************************)
(* strconv.ParseFloat(s, 64).  special() recognises the infinities and     *)
(* NaN; readFloat scans sign, decimal or hexadecimal mantissa, exponent    *)
(* and digit-separating underscores; the value is the float64 nearest to   *)
(* the exact decimal (or hexadecimal) value, an overflow is a range error. *)
(***************************************************************************)
RECURSIVE CommonPrefixLenIgnoreCase(_, _)
CommonPrefixLenIgnoreCase(s, prefix) ==
    IF s = <<>> \/ prefix = <<>> \/ Lower(s[1]) # prefix[1]
    THEN 0
    ELSE 1 + CommonPrefixLenIgnoreCase(Tail(s), Tail(prefix))

Special(s0) ==
    LET none   == [ok |-> FALSE, f |-> FloatZero, n |-> 0]
        signed == s0 # <<>> /\ s0[1] \in {"+", "-"}
        neg    == s0 # <<>> /\ s0[1] = "-"
        s      == IF signed THEN Tail(s0) ELSE s0
        nsign  == IF signed THEN 1 ELSE 0
        n0     == CommonPrefixLenIgnoreCase(s, <<"i", "n", "f", "i", "n", "i", "t", "y">>)
        n      == IF 3 < n0 /\ n0 < 8 THEN 3 ELSE n0
    IN  IF s0 = <<>>
        THEN none
        ELSE IF signed \/ Lower(s0[1]) = "i"
        THEN (IF n = 3 \/ n = 8
              THEN [ok |-> TRUE, f |-> Inf(neg), n |-> nsign + n]
              ELSE none)
        ELSE IF Lower(s0[1]) = "n"
        THEN (IF CommonPrefixLenIgnoreCase(s, <<"n", "a", "n">>) = 3
              THEN [ok |-> TRUE, f |-> NaN, n |-> 3]
              ELSE none)
        ELSE none

\* the mantissa loop of readFloat; st.mant holds every digit read
RECURSIVE MantLoop(_, _, _)
MantLoop(s, hex, st) ==
    IF st.i > Len(s)
    THEN st
    ELSE LET c == s[st.i]
         IN  IF c = "_"
             THEN MantLoop(s, hex, [st EXCEPT !.i = @ + 1, !.underscores = TRUE])
             ELSE IF c = "."
             THEN (IF st.sawdot
                   THEN st
                   ELSE MantLoop(s, hex, [st EXCEPT !.i = @ + 1, !.sawdot = TRUE,
                                                    !.dp = st.nd]))
             ELSE IF IsDigit(c)
             THEN (IF c = "0" /\ st.nd = 0
                   THEN MantLoop(s, hex, [st EXCEPT !.i = @ + 1, !.sawdigits = TRUE,
                                                    !.dp = @ - 1])
                   ELSE MantLoop(s, hex,
                            [st EXCEPT !.i = @ + 1, !.sawdigits = TRUE, !.nd = @ + 1,
                                       !.mant = MulAdd(@, IF hex THEN 16 ELSE 10,
                                                       DigitVal(c))]))
             ELSE IF hex /\ IsHexLetter(c)
             THEN MantLoop(s, hex,
                      [st EXCEPT !.i = @ + 1, !.sawdigits = TRUE, !.nd = @ + 1,
                                 !.mant = MulAdd(@, 16, HexLetterVal(c))])
             ELSE st

\* the exponent digits of readFloat: [i, e, underscores]
RECURSIVE ExpLoop(_, _)
ExpLoop(s, x) ==
    IF x.i <= Len(s) /\ (IsDigit(s[x.i]) \/ s[x.i] = "_")
    THEN (IF s[x.i] = "_"
          THEN ExpLoop(s, [x EXCEPT !.i = @ + 1, !.underscores = TRUE])
          ELSE ExpLoop(s, [x EXCEPT !.i = @ + 1,
                                    !.e = IF @ < 10000 THEN @ * 10 + DigitVal(s[x.i]) ELSE @]))
    ELSE x

RECURSIVE UnderscoreLoop(_, _, _, _)
UnderscoreLoop(s, i, saw, hex) ==
    IF i > Len(s)
    THEN saw # "_"
    ELSE IF IsDigit(s[i]) \/ (hex /\ IsHexLetter(s[i]))
    THEN UnderscoreLoop(s, i + 1, "0", hex)
    ELSE IF s[i] = "_"
    THEN (IF saw # "0" THEN FALSE ELSE UnderscoreLoop(s, i + 1, "_", hex))
    ELSE IF saw = "_"
    THEN FALSE
    ELSE UnderscoreLoop(s, i + 1, "!", hex)

UnderscoreOK(s0) ==
    LET s   == IF s0 # <<>> /\ s0[1] \in {"+", "-"} THEN Tail(s0) ELSE s0
        pre == Len(s) >= 2 /\ s[1] = "0" /\ Lower(s[2]) \in {"b", "o", "x"}
    IN  UnderscoreLoop(s, IF pre THEN 3 ELSE 1, IF pre THEN "0" ELSE "^",
                       pre /\ Lower(s[2]) = "x")

\* readFloat: [ok, neg, hex, mant, exp, i]; the value read is
\* mant * 10^exp (decimal) or mant * 2^exp (hexadecimal), i the next index
ReadFloat(s) ==
    LET fail   == [ok |-> FALSE, neg |-> FALSE, hex |-> FALSE, mant |-> Zero,
                   exp |-> 0, dp |-> 0, i |-> 1]
        neg    == s # <<>> /\ s[1] = "-"
        i0     == IF s # <<>> /\ s[1] \in {"+", "-"} THEN 2 ELSE 1
        hex    == i0 + 2 <= Len(s) /\ s[i0] = "0" /\ Lower(s[i0 + 1]) = "x"
        st     == MantLoop(s, hex,
                      [i |-> IF hex THEN i0 + 2 ELSE i0, nd |-> 0, dp |-> 0,
                       sawdot |-> FALSE, sawdigits |-> FALSE, mant |-> Zero,
                       underscores |-> FALSE])
        dp0    == IF st.sawdot THEN st.dp ELSE st.nd
        dp1    == IF hex THEN 4 * dp0 ELSE dp0
        nd1    == IF hex THEN 4 * st.nd ELSE st.nd
        hasExp == st.i <= Len(s) /\ Lower(s[st.i]) = (IF hex THEN "p" ELSE "e")
        j      == st.i + 1
        esign  == IF j <= Len(s) /\ s[j] = "-" THEN -1 ELSE 1
        k      == IF j <= Len(s) /\ s[j] \in {"+", "-"} THEN j + 1 ELSE j
        x      == ExpLoop(s, [i |-> k, e |-> 0, underscores |-> st.underscores])
        done(dp, i, us) ==
            IF us /\ ~UnderscoreOK(SubSeq(s, 1, i - 1))
            THEN fail
            ELSE [ok |-> TRUE, neg |-> neg, hex |-> hex, mant |-> st.mant,
                  exp |-> IF st.mant # Zero THEN dp - nd1 ELSE 0, dp |-> dp, i |-> i]
    IN  IF s = <<>> \/ ~st.sawdigits
        THEN fail
        ELSE IF hasExp
        THEN (IF k > Len(s) \/ ~IsDigit(s[k])
              THEN fail
              ELSE done(dp1 + x.e * esign, x.i, x.underscores))
        ELSE IF hex
        THEN fail
        ELSE done(dp1, st.i, st.underscores)

\* the float64 of what readFloat read
FloatOfRead(r) ==
    IF r.mant = Zero
    THEN [f |-> MkFin(r.neg, Zero, 0), err |-> "nil"]
    ELSE IF r.hex
    THEN RoundBits(r.neg, r.mant, r.exp, FALSE)
    ELSE IF r.dp > 310
    THEN [f |-> Inf(r.neg), err |-> "range"]
    ELSE IF r.dp < -330
    THEN [f |-> MkFin(r.neg, Zero, 0), err |-> "nil"]
    ELSE RoundScaled(r.neg, r.mant, 0, r.exp)

ParseFloat(s) ==
    LET sp == Special(s)
        r  == ReadFloat(s)
        v  == FloatOfRead(r)
    IN  IF sp.ok
        THEN (IF sp.n = Len(s)
              THEN [f |-> sp.f, err |-> "nil"]
              ELSE [f |-> FloatZero, err |-> "syntax"])
        ELSE IF ~r.ok \/ r.i # Len(s) + 1
        THEN [f |-> FloatZero, err |-> "syntax"]
        ELSE v

(***************************************************************************)
(* fmt.Sprintf("%d", int64) and fmt.Sprintf("%f", float64).                *)
(***************************************************************************)
RECURSIVE DecDigits(_)
DecDigits(a) ==
    IF a = <<>>
    THEN <<>>
    ELSE LET d == DivSmall(a, 10) IN Append(DecDigits(d.q), DigitChars[d.r + 1])

FormatD(i) ==
    (IF i.neg THEN <<"-">> ELSE <<>>)
        \o (IF i.mag = <<>> THEN <<"0">> ELSE DecDigits(i.mag))

\* round-half-even of mant * 2^exp * 10^6
Micros(f) ==
    LET p    == MulPow10(f.mant, 6)
        h    == Shr(p, (-f.exp) - 1)
        kept == Shr(h.q, 1).q
    IN  IF f.exp >= 0
        THEN Shl(p, f.exp)
        ELSE IF IsOdd(h.q) /\ (h.nz \/ IsOdd(kept))
        THEN MulAdd(kept, 1, 1)
        ELSE kept

FormatF(f) ==
    IF f.kind = "nan"
    THEN <<"N", "a", "N">>
    ELSE IF f.kind = "inf"
    THEN (IF f.neg THEN <<"-">> ELSE <<"+">>) \o <<"I", "n", "f">>
    ELSE LET ds  == DecDigits(Micros(f))
             pad == [i \in 1..(7 - Len(ds)) |-> "0"] \o ds
         IN  (IF f.neg THEN <<"-">> ELSE <<>>)
                 \o SubSeq(pad, 1, Len(pad) - 6) \o <<".">>
                 \o SubSeq(pad, Len(pad) - 5, Len(pad))

(***************************************************************************)
(* Tokens and nodes.                                                       *)
(***************************************************************************)
Token(kind, literal) == [Kind |-> kind, Literal |-> literal]

Object(token, pairs) == [kind |-> "Object", Token |-> token, Pairs |-> pairs]

Array(token, elements) == [kind |-> "Array", Token |-> token, Elements |-> elements]

StringLiteral(token, value) ==
    [kind |-> "StringLiteral", Token |-> token, Value |-> value]

NumberLiteral(token, value, float, int, isInt, isValid) ==
    [kind |-> "NumberLiteral", Token |-> token, Value |-> value, Float |-> float,
     Int |-> int, IsInt |-> isInt, IsValid |-> isValid]

Boolean(token, value) == [kind |-> "Boolean", Token |-> token, Value |-> value]

Null(token) == [kind |-> "Null", Token |-> token]

\* the float parse tried before the integer parse
NewNumberLiteralFloatFirst(token) ==
    LET pi == ParseInt(token.Literal)
        pf == ParseFloat(token.Literal)
    IN  IF pf.err = "nil"
        THEN NumberLiteral(token, token.Literal, pf.f, IntZero, FALSE, TRUE)
        ELSE IF pi.err = "nil"
        THEN NumberLiteral(token, token.Literal, Float64OfInt(pi.i), pi.i, TRUE, TRUE)
        ELSE NumberLiteral(token, token.Literal, FloatZero, IntZero, FALSE, FALSE)

\* the float branch keeping the integer that ParseInt handed back with its error
NewNumberLiteralKeepsInt(token) ==
    LET pi == ParseInt(token.Literal)
        pf == ParseFloat(token.Literal)
    IN  IF pi.err = "nil"
        THEN NumberLiteral(token, token.Literal, Float64OfInt(pi.i), pi.i, TRUE, TRUE)
        ELSE IF pf.err = "nil"
        THEN NumberLiteral(token, token.Literal, pf.f, pi.i, FALSE, TRUE)
        ELSE NumberLiteral(token, token.Literal, FloatZero, IntZero, FALSE, FALSE)

\* the failure branch keeping what ParseFloat handed back with its error
NewNumberLiteralKeepsFloat(token) ==
    LET pi == ParseInt(token.Literal)
        pf == ParseFloat(token.Literal)
    IN  IF pi.err = "nil"
        THEN NumberLiteral(token, token.Literal, Float64OfInt(pi.i), pi.i, TRUE, TRUE)
        ELSE IF pf.err = "nil"
        THEN NumberLiteral(token, token.Literal, pf.f, IntZero, FALSE, TRUE)
        ELSE NumberLiteral(token, token.Literal, pf.f, IntZero, FALSE, FALSE)

\* a range error of the float parse taken for a success
NewNumberLiteralIgnoresRange(token) ==
    LET pi == ParseInt(token.Literal)
        pf == ParseFloat(token.Literal)
    IN  IF pi.err = "nil"
        THEN NumberLiteral(token, token.Literal, Float64OfInt(pi.i), pi.i, TRUE, TRUE)
        ELSE IF pf.err # "syntax"
        THEN NumberLiteral(token, token.Literal, pf.f, IntZero, FALSE, TRUE)
        ELSE NumberLiteral(token, token.Literal, FloatZero, IntZero, FALSE, FALSE)

\* Value set only once a parse has succeeded
NewNumberLiteralLateValue(token) ==
    LET pi == ParseInt(token.Literal)
        pf == ParseFloat(token.Literal)
    IN  IF pi.err = "nil"
        THEN NumberLiteral(token, token.Literal, Float64OfInt(pi.i), pi.i, TRUE, TRUE)
        ELSE IF pf.err = "nil"
        THEN NumberLiteral(token, token.Literal, pf.f, IntZero, FALSE, TRUE)
        ELSE NumberLiteral(token, <<>>, FloatZero, IntZero, FALSE, FALSE)

NewNumberLiteral(token) ==
    LET pi == ParseInt(token.Literal)
        pf == ParseFloat(token.Literal)
    IN  IF pi.err = "nil"
        THEN NumberLiteral(token, token.Literal, Float64OfInt(pi.i), pi.i, TRUE, TRUE)
        ELSE IF pf.err = "nil"
        THEN NumberLiteral(token, token.Literal, pf.f, IntZero, FALSE, TRUE)
        ELSE NumberLiteral(token, token.Literal, FloatZero, IntZero, FALSE, FALSE)

(***************************************************************************)
(* The accessors.  Each maps the heap and the receiver to the set of       *)
(* outcomes [val, heap] the call can have: the value returned and the heap *)
(* it leaves.                                                              *)
(***************************************************************************)
ObjectTokenLiteral(h, self) == {[val |-> h[self].Token.Literal, heap |-> h]}

ArrayTokenLiteral(h, self) == {[val |-> h[self].Token.Literal, heap |-> h]}

StringLiteralTokenLiteral(h, self) == {[val |-> h[self].Token.Literal, heap |-> h]}

NumberLiteralTokenLiteral(h, self) == {[val |-> h[self].Token.Literal, heap |-> h]}

BooleanTokenLiteral(h, self) == {[val |-> h[self].Token.Literal, heap |-> h]}

NullTokenLiteral(h, self) == {[val |-> h[self].Token.Literal, heap |-> h]}

TokenLiteral(h, self) ==
    CASE h[self].kind = "Object"        -> ObjectTokenLiteral(h, self)
      [] h[self].kind = "Array"         -> ArrayTokenLiteral(h, self)
      [] h[self].kind = "StringLiteral" -> StringLiteralTokenLiteral(h, self)
      [] h[self].kind = "NumberLiteral" -> NumberLiteralTokenLiteral(h, self)
      [] h[self].kind = "Boolean"       -> BooleanTokenLiteral(h, self)
      [] h[self].kind = "Null"          -> NullTokenLiteral(h, self)

IsValidNumber(h, self) == {[val |-> h[self].IsValid, heap |-> h]}

\* the orders in which a range over a map with key set K can yield its keys
Orders(K) ==
    {o \in [1..Cardinality(K) -> K] : \A i, j \in DOMAIN o : i # j => o[i] # o[j]}

\* a display that tells an empty array from one with elements
ArrayStringWithElements(h, self) ==
    {[val |-> IF h[self].Elements = <<>> THEN <<"[", "]">> ELSE <<"[", ".", ".", ".", "]">>,
      heap |-> h]}

ArrayString(h, self) == {[val |-> <<"[", "]">>, heap |-> h]}

StringLiteralString(h, self) == {[val |-> h[self].Value, heap |-> h]}

\* a String() that stores what it formatted in the node
NumberLiteralStringCaching(h, self) ==
    LET s == IF h[self].IsInt THEN FormatD(h[self].Int) ELSE FormatF(h[self].Float)
    IN  {[val |-> s, heap |-> [h EXCEPT ![self].Value = s]]}

NumberLiteralString(h, self) ==
    {[val |-> IF h[self].IsInt THEN FormatD(h[self].Int) ELSE FormatF(h[self].Float),
      heap |-> h]}

BooleanString(h, self) == {[val |-> h[self].Token.Literal, heap |-> h]}

NullString(h, self) == {[val |-> <<"n", "u", "l", "l">>, heap |-> h]}

RECURSIVE String(_, _)
RECURSIVE ObjectLoop(_, _, _, _, _)
\* the range loop of Object.String from its i-th iteration on, the keys
\* coming in the order o and b being what the builder holds
ObjectLoop(h, self, o, i, b) ==
    IF i >= Len(o)
    THEN {[val |-> b \o <<"}">>, heap |-> h]}
    ELSE UNION {ObjectLoop(v.heap, self, o, i + 1,
                    b \o (IF i > 0 THEN <<",", " ">> ELSE <<>>)
                      \o o[i + 1] \o <<":", " ">> \o v.val) :
                v \in String(h, h[self].Pairs[o[i + 1]])}

\* a range that always yields the keys in one order
ObjectStringOneOrder(h, self) ==
    ObjectLoop(h, self, CHOOSE o \in Orders(DOMAIN h[self].Pairs) : TRUE, 0, <<"{">>)

ObjectString(h, self) ==
    UNION {ObjectLoop(h, self, o, 0, <<"{">>) : o \in Orders(DOMAIN h[self].Pairs)}

String(h, self) ==
    CASE h[self].kind = "Object"        -> ObjectString(h, self)
      [] h[self].kind = "Array"         -> ArrayString(h, self)
      [] h[self].kind = "StringLiteral" -> StringLiteralString(h, self)
      [] h[self].kind = "NumberLiteral" -> NumberLiteralString(h, self)
      [] h[self].kind = "Boolean"       -> BooleanString(h, self)
      [] h[self].kind = "Null"          -> NullString(h, self)

(***************************************************************************)
(* Bounds and input sets.                                                  *)
(***************************************************************************)
\* the longest literal of the exhaustive part of NumberLiterals
MaxLen == 3

\* the most nodes a behaviour of Spec constructs
MaxNodes == 4

Alphabet == {"-", "+", "0", "1", ".", "e", "_"}

ShortLiterals == UNION {[1..n -> Alphabet] : n \in 0..MaxLen}

Nines(n) == [i \in 1..n |-> "9"]

LongLiterals ==
    { <<"4", "2">>, <<"4", "2", ".", "0">>, <<"0", "0", "7">>, <<"+", "5">>,
      <<"-", "1", "7">>, <<"2", ".", "5">>, <<"-", "0", ".", "0">>,
      <<"N", "a", "N">>, <<"I", "n", "f">>, <<"-", "i", "n", "f", "i", "n", "i", "t", "y">>,
      <<"i", "n", "f", "i">>, <<"0", "x", "1", "p", "-", "2">>, <<"0", "X", "1", "F">>,
      <<"0", "x", "A", ".", "8", "P", "1">>, <<"1", "E", "+", "2">>,
      <<"1", "e", "4", "0", "0">>, <<"-", "1", "e", "4", "0", "0">>,
      <<"1", "e", "-", "4", "0", "0">>, <<"1", "e", "2", "2">>,
      <<"1", "_", "0", "0", "0">>, <<"1", "e", "1", "_", "0">>, <<"4", "2", "a">>,
      <<"9", "2", "2", "3", "3", "7", "2", "0", "3", "6", "8", "5", "4", "7", "7", "5", "8", "0", "7">>,
      <<"9", "2", "2", "3", "3", "7", "2", "0", "3", "6", "8", "5", "4", "7", "7", "5", "8", "0", "8">>,
      <<"-", "9", "2", "2", "3", "3", "7", "2", "0", "3", "6", "8", "5", "4", "7", "7", "5", "8", "0", "8">>,
      <<"-", "9", "2", "2", "3", "3", "7", "2", "0", "3", "6", "8", "5", "4", "7", "7", "5", "8", "0", "9">>,
      <<"1", "8", "4", "4", "6", "7", "4", "4", "0", "7", "3", "7", "0", "9", "5", "5", "1", "6", "1", "6">>,
      <<"9", "0", "0", "7", "1", "9", "9", "2", "5", "4", "7", "4", "0", "9", "9", "2">>,
      <<"9", "0", "0", "7", "1", "9", "9", "2", "5", "4", "7", "4", "0", "9", "9", "3">>,
      <<"-", "9", "0", "0", "7", "1", "9", "9", "2", "5", "4", "7", "4", "0", "9", "9", "5">>,
      Nines(15), Nines(16), Nines(17), Nines(18), Nines(19), Nines(25) }

NumberLiterals == ShortLiterals \cup LongLiterals

TreeNumberLiterals == {<<"2", ".", "5">>}

NumberToken(lit) == Token("NUMBER", lit)

LBrace == Token("{", <<"{">>)

LBracket == Token("[", <<"[">>)

\* a string token keeps the source text, the node the decoded content
StringTexts == {[lit |-> <<"a", "\\", "n">>, value |-> <<"a", "\n">>]}

BooleanTexts == {[lit |-> <<"t", "r", "u", "e">>, value |-> TRUE],
                 [lit |-> <<"f", "a", "l", "s", "e">>, value |-> FALSE]}

TreeBooleanTexts == {[lit |-> <<"t", "r", "u", "e">>, value |-> TRUE]}

NullToken == Token("NULL", <<"n", "u", "l", "l">>)

\* the keys of the objects built, in source order
KeySeq == << <<"a">>, <<"b">> >>

(***************************************************************************)
(* The state machine.                                                      *)
(***************************************************************************)
NoCall == [op |-> "none", self |-> 0, arg |-> <<>>, val |-> <<>>, flag |-> <<>>]

Init == nodes = <<>> /\ ret = NoCall

\* the children of the containers of h
Owned(h) ==
    UNION {IF h[i].kind = "Object"
           THEN {h[i].Pairs[k] : k \in DOMAIN h[i].Pairs}
           ELSE IF h[i].kind = "Array"
           THEN {h[i].Elements[j] : j \in DOMAIN h[i].Elements}
           ELSE {} : i \in DOMAIN h}

\* the nodes built and not yet part of a container, oldest first
RECURSIVE SortedSeq(_)
SortedSeq(S) ==
    IF S = {}
    THEN <<>>
    ELSE LET m == CHOOSE x \in S : \A y \in S : x >= y
         IN  Append(SortedSeq(S \ {m}), m)

Free(h) == SortedSeq(DOMAIN h \ Owned(h))

\* the last n free nodes: the children a container built now can take
LastFree(h, n) == SubSeq(Free(h), Len(Free(h)) - n + 1, Len(Free(h)))

Construct(n) == nodes' = Append(nodes, n)

MakeObject(max) ==
    /\ Len(nodes) < max
    /\ \E n \in 0..Len(KeySeq) :
         /\ n <= Len(Free(nodes))
         /\ Construct(Object(LBrace,
                [k \in {KeySeq[i] : i \in 1..n} |->
                    LastFree(nodes, n)[CHOOSE i \in 1..n : KeySeq[i] = k]]))
    /\ UNCHANGED ret

MakeArray(max) ==
    /\ Len(nodes) < max
    /\ \E n \in 0..Len(Free(nodes)) : Construct(Array(LBracket, LastFree(nodes, n)))
    /\ UNCHANGED ret

MakeStringLiteral(max) ==
    /\ Len(nodes) < max
    /\ \E s \in StringTexts : Construct(StringLiteral(Token("STRING", s.lit), s.value))
    /\ UNCHANGED ret

MakeBoolean(texts, max) ==
    /\ Len(nodes) < max
    /\ \E b \in texts :
         Construct(Boolean(Token(IF b.value THEN "TRUE" ELSE "FALSE", b.lit), b.value))
    /\ UNCHANGED ret

MakeNull(max) ==
    /\ Len(nodes) < max
    /\ Construct(Null(NullToken))
    /\ UNCHANGED ret

CallNewNumberLiteral(lits, max) ==
    /\ Len(nodes) < max
    /\ \E lit \in lits :
         /\ Construct(NewNumberLiteral(NumberToken(lit)))
         /\ ret' = [op |-> "NewNumberLiteral", self |-> Len(nodes) + 1,
                    arg |-> <<NumberToken(lit)>>, val |-> <<>>, flag |-> <<>>]

Returned(op, self, r) ==
    /\ nodes' = r.heap
    /\ ret' = [op |-> op, self |-> self, arg |-> <<>>,
               val |-> IF op = "IsValidNumber" THEN <<>> ELSE <<r.val>>,
               flag |-> IF op = "IsValidNumber" THEN <<r.val>> ELSE <<>>]

CallTokenLiteral ==
    \E self \in DOMAIN nodes :
        \E r \in TokenLiteral(nodes, self) : Returned("TokenLiteral", self, r)

CallString ==
    \E self \in DOMAIN nodes :
        \E r \in String(nodes, self) : Returned("String", self, r)

CallIsValidNumber ==
    \E self \in DOMAIN nodes :
        /\ nodes[self].kind = "NumberLiteral"
        /\ \E r \in IsValidNumber(nodes, self) : Returned("IsValidNumber", self, r)

Next ==
    \/ MakeObject(MaxNodes)
    \/ MakeArray(MaxNodes)
    \/ MakeStringLiteral(MaxNodes)
    \/ CallNewNumberLiteral(TreeNumberLiterals, MaxNodes)
    \/ MakeBoolean(TreeBooleanTexts, MaxNodes)
    \/ MakeNull(MaxNodes)
    \/ CallTokenLiteral
    \/ CallString
    \/ CallIsValidNumber

Spec == Init /\ [][Next]_vars

\* one node per behaviour, a number node of any literal of NumberLiterals
NextNode ==
    \/ MakeObject(1)
    \/ MakeArray(1)
    \/ MakeStringLiteral(1)
    \/ CallNewNumberLiteral(NumberLiterals, 1)
    \/ MakeBoolean(BooleanTexts, 1)
    \/ MakeNull(1)
    \/ CallTokenLiteral
    \/ CallString
    \/ CallIsValidNumber

SpecNode == Init /\ [][NextNode]_vars

(***************************************************************************)
(* What the properties are stated with.                                    *)
(***************************************************************************)
\* the state right after NewNumberLiteral returned
Classified == ret.op = "NewNumberLiteral"

\* its argument's literal and the node it returned
Lit == ret.arg[1].Literal

Node == nodes[ret.self]

Str42 == <<"4", "2">>

Str42p0 == <<"4", "2", ".", "0">>

Str1e400 == <<"1", "e", "4", "0", "0">>

StrMaxInt64Plus1 ==
    <<"9", "2", "2", "3", "3", "7", "2", "0", "3", "6", "8", "5", "4", "7", "7", "5", "8", "0", "8">>

Str2Pow53Plus1 ==
    <<"9", "0", "0", "7", "1", "9", "9", "2", "5", "4", "7", "4", "0", "9", "9", "3">>

RECURSIVE SkipDigits(_, _)
SkipDigits(s, i) == IF i <= Len(s) /\ IsDigit(s[i]) THEN SkipDigits(s, i + 1) ELSE i

\* an optional sign and one or more decimal digits, nothing else
IsSignedDigits(s) ==
    LET i0 == IF s # <<>> /\ s[1] \in {"+", "-"} THEN 2 ELSE 1
    IN  i0 <= Len(s) /\ SkipDigits(s, i0) = Len(s) + 1

\* the digits of s from index i on as a magnitude
RECURSIVE DigitsMagnitude(_, _, _)
DigitsMagnitude(s, i, acc) ==
    IF i > Len(s) THEN acc ELSE DigitsMagnitude(s, i + 1, MulAdd(acc, 10, DigitVal(s[i])))

\* the integer an IsSignedDigits literal denotes
SignedDigitsValue(s) ==
    MkInt(s[1] = "-", DigitsMagnitude(s, IF s[1] \in {"+", "-"} THEN 2 ELSE 1, Zero))

InInt64(i) ==
    IF i.neg THEN ~BigLess(IntCutoff, i.mag) ELSE BigLess(i.mag, IntCutoff)

\* the JSON number grammar (RFC 8259): -? (0 | [1-9][0-9]*) (. [0-9]+)? ([eE] [+-]? [0-9]+)?
IsJSONNumber(s) ==
    LET i0   == IF s # <<>> /\ s[1] = "-" THEN 2 ELSE 1
        i1   == IF i0 <= Len(s) /\ s[i0] = "0" THEN i0 + 1 ELSE SkipDigits(s, i0)
        dot  == i1 <= Len(s) /\ s[i1] = "."
        i2   == IF dot THEN SkipDigits(s, i1 + 1) ELSE i1
        ex   == i2 <= Len(s) /\ s[i2] \in {"e", "E"}
        j    == IF i2 + 1 <= Len(s) /\ s[i2 + 1] \in {"+", "-"} THEN i2 + 2 ELSE i2 + 1
        i3   == IF ex THEN SkipDigits(s, j) ELSE i2
    IN  /\ i1 > i0
        /\ dot => i2 > i1 + 1
        /\ ex => i3 > j
        /\ i3 = Len(s) + 1

\* a + b
RECURSIVE BigAddC(_, _, _)
BigAddC(a, b, c) ==
    IF a = <<>> /\ b = <<>>
    THEN (IF c = 0 THEN <<>> ELSE <<c>>)
    ELSE LET x == IF a = <<>> THEN 0 ELSE Last(a)
             y == IF b = <<>> THEN 0 ELSE Last(b)
         IN  Append(BigAddC(IF a = <<>> THEN a ELSE Front(a),
                            IF b = <<>> THEN b ELSE Front(b), (x + y + c) \div Base),
                    (x + y + c) % Base)

BigAdd(a, b) == BigAddC(a, b, 0)

BigLeq(a, b) == ~BigLess(b, a)

\* f is the whole number of magnitude m, to within half a unit in the last
\* place of a 53-bit significand (exactly, when m has at most 53 bits)
NearestTo(f, neg, m) ==
    LET half == IF BitLen(m) > 53 THEN Shl(One, BitLen(m) - 54) ELSE Zero
        w    == WholeOfFloat(f)
    IN  /\ FloatIsWhole(f)
        /\ w.neg = (neg /\ m # Zero)
        /\ BigLeq(w.mag, BigAdd(m, half))
        /\ BigLeq(m, BigAdd(w.mag, half))
        /\ BitLen(f.mant) <= 53

(***************************************************************************)
(* Number classification (SpecNode).                                       *)
(***************************************************************************)
\* C1: a literal that parses as a strict base-10 signed 64-bit integer (an
\* optional sign and digits, in range) gives IsInt = TRUE, IsValid = TRUE and
\* Int the integer it denotes, also where the float parse would succeed too;
\* "42" gives Int = 42.
C1_IntegerLiteral ==
    Classified =>
        /\ ParseInt(Lit).err = "nil" =>
               Node.IsInt /\ Node.IsValid /\ Node.Int = ParseInt(Lit).i
        /\ (IsSignedDigits(Lit) /\ InInt64(SignedDigitsValue(Lit))) =>
               Node.IsInt /\ Node.IsValid /\ Node.Int = SignedDigitsValue(Lit)
        /\ Lit = Str42 => Node.IsInt /\ Node.Int = I64(42)

C1_Witness ==
    /\ Classified
    /\ Lit = Str42
    /\ ParseFloat(Lit).err = "nil"
    /\ Node.IsInt /\ Node.IsValid /\ Node.Int = I64(42)

\* C2: a literal the integer parse rejects and the float parse accepts gives
\* IsInt = FALSE, IsValid = TRUE, Float the parsed float and Int = 0; "42.0"
\* gives Float = 42.
C2_FloatLiteral ==
    Classified =>
        /\ (ParseInt(Lit).err # "nil" /\ ParseFloat(Lit).err = "nil") =>
               /\ ~Node.IsInt
               /\ Node.IsValid
               /\ Node.Float = ParseFloat(Lit).f
               /\ Node.Int = IntZero
        /\ Lit = Str42p0 =>
               ~Node.IsInt /\ Node.IsValid /\ WholeOfFloat(Node.Float) = I64(42)

C2_Witness ==
    /\ Classified
    /\ Lit = Str42p0
    /\ ParseInt(Lit).err = "syntax"
    /\ ~Node.IsInt /\ Node.IsValid /\ Node.Float = MkFin(FALSE, BigOfInt(42), 0)

\* C3: a literal both parses reject (a float parse failing by range overflow,
\* as for "1e400", included) gives IsValid = FALSE, IsInt = FALSE, Int = 0 and
\* Float = 0: nothing ParseInt or ParseFloat handed back with the error is kept.
C3_InvalidLiteral ==
    (Classified /\ ParseInt(Lit).err # "nil" /\ ParseFloat(Lit).err # "nil") =>
        /\ ~Node.IsValid
        /\ ~Node.IsInt
        /\ Node.Int = IntZero
        /\ Node.Float = FloatZero

C3_Witness ==
    /\ Classified
    /\ Lit = Str1e400
    /\ ParseFloat(Lit).err = "range" /\ ParseFloat(Lit).f = Inf(FALSE)
    /\ ~Node.IsValid /\ Node.Float = FloatZero

\* C4: IsValid (and IsValidNumber()) is TRUE exactly for the literals of the
\* JSON number grammar.
C4_ValidIffJSONNumber ==
    /\ Classified => (Node.IsValid <=> IsJSONNumber(Lit))
    /\ ret.op = "IsValidNumber" =>
           (ret.flag[1] <=> IsJSONNumber(nodes[ret.self].Token.Literal))

\* C5 as stated: a literal whose magnitude overflows its representation, the
\* int64 range for a digit string or the float64 range for an exponent form,
\* is reported with IsValid = FALSE.
C5_OverflowIsInvalid ==
    Classified =>
        ((ParseInt(Lit).err = "range" \/ ParseFloat(Lit).err = "range") => ~Node.IsValid)

\* C5, amended: a literal beyond the float64 range is reported with
\* IsValid = FALSE and zero numeric fields; a digit string beyond the int64
\* range that the float parse accepts is reported with IsValid = TRUE,
\* IsInt = FALSE, Int = 0 and Float the float64 nearest to the integer written.
C5_OverflowPolicy ==
    Classified =>
        /\ ParseFloat(Lit).err = "range" =>
               ~Node.IsValid /\ ~Node.IsInt /\ Node.Float = FloatZero /\ Node.Int = IntZero
        /\ (IsSignedDigits(Lit) /\ ~InInt64(SignedDigitsValue(Lit))
              /\ ParseFloat(Lit).err = "nil") =>
               /\ Node.IsValid
               /\ ~Node.IsInt
               /\ Node.Int = IntZero
               /\ NearestTo(Node.Float, SignedDigitsValue(Lit).neg, SignedDigitsValue(Lit).mag)

C5_Witness ==
    /\ Classified
    /\ Lit = StrMaxInt64Plus1
    /\ ParseInt(Lit).err = "range"
    /\ Node.IsValid /\ ~Node.IsInt /\ Node.Float = MkFin(FALSE, One, 63)

\* C6 as stated: with IsInt = TRUE, Float is exactly the number Int is, for
\* every Int of the int64 range.
C6_FloatIsExactlyInt ==
    (Classified /\ Node.IsInt) =>
        FloatIsWhole(Node.Float) /\ WholeOfFloat(Node.Float) = Node.Int

\* C6, amended: with IsInt = TRUE, Float is the float64 nearest to Int; it is
\* exactly Int when Int has at most 53 significant bits (|Int| <= 2^53
\* included) and within half a unit in the last place otherwise.
C6_FloatIsNearestInt ==
    (Classified /\ Node.IsInt) =>
        /\ NearestTo(Node.Float, Node.Int.neg, Node.Int.mag)
        /\ BigLeq(Node.Int.mag, Shl(One, 53)) => WholeOfFloat(Node.Float) = Node.Int

C6_Witness ==
    /\ Classified
    /\ Lit = Str2Pow53Plus1
    /\ Node.IsInt
    /\ Node.Float = MkFin(FALSE, One, 53)
    /\ WholeOfFloat(Node.Float) # Node.Int

\* C8: TokenLiteral() returns the Literal of the node's token, for every
\* variant; NewNumberLiteral stores its token unchanged and sets Value to the
\* token's Literal, whether the literal is an integer, a float or invalid.
C8_TokenLiteral ==
    /\ ret.op = "TokenLiteral" => ret.val = <<nodes[ret.self].Token.Literal>>
    /\ Classified => Node.Token = ret.arg[1] /\ Node.Value = Lit
    /\ \A i \in DOMAIN nodes :
           nodes[i].kind = "NumberLiteral" => nodes[i].Value = nodes[i].Token.Literal

C8_Witness ==
    /\ ret.op = "TokenLiteral"
    /\ nodes[ret.self].kind = "NumberLiteral"
    /\ ~nodes[ret.self].IsValid
    /\ ret.val = <<Str1e400>>
    /\ nodes[ret.self].Value = Str1e400

(***************************************************************************)
(* Accessors on trees (Spec).                                              *)
(***************************************************************************)
\* the strings String() can return for node self of heap h
StrVals(h, self) == {r.val : r \in String(h, self)}

PairCount(n) == Cardinality(DOMAIN n.Pairs)

Contains(s, sub) ==
    \E i \in 1..(Len(s) - Len(sub) + 1) : SubSeq(s, i, i + Len(sub) - 1) = sub

RECURSIVE Join(_, _)
Join(parts, sep) ==
    IF parts = <<>>
    THEN <<>>
    ELSE IF Len(parts) = 1
    THEN parts[1]
    ELSE parts[1] \o sep \o Join(Tail(parts), sep)

\* "{" + the renderings "key: value.String()" of all pairs, each once, in
\* some order, joined by ", " + "}"
Renderings(h, self) ==
    LET K == DOMAIN h[self].Pairs
    IN  {<<"{">> \o Join([i \in 1..Cardinality(K) |-> o[i] \o <<":", " ">> \o c[o[i]]],
                         <<",", " ">>) \o <<"}">> :
            o \in Orders(K),
            c \in {d \in [K -> UNION {StrVals(h, h[self].Pairs[k]) : k \in K}] :
                      \A k \in K : d[k] \in StrVals(h, h[self].Pairs[k])}}

\* no Object with two or more pairs at or below node self
RECURSIVE FixedDisplay(_, _)
FixedDisplay(h, self) ==
    h[self].kind = "Object" =>
        /\ PairCount(h[self]) <= 1
        /\ \A k \in DOMAIN h[self].Pairs : FixedDisplay(h, h[self].Pairs[k])

\* C7: no accessor call changes a node: every step leaves every node built
\* so far as it was (Token and payload fields), and TokenLiteral() and
\* IsValidNumber() have one possible result per node, so that a repeated call
\* returns what the call before returned.
C7_NoMutation ==
    [][/\ Len(nodes') >= Len(nodes)
       /\ \A i \in DOMAIN nodes : nodes'[i] = nodes[i]
       /\ (ret' # ret /\ ret'.op \in {"TokenLiteral", "String", "IsValidNumber"}) =>
              nodes' = nodes
       /\ \A i \in DOMAIN nodes :
              /\ Cardinality({r.val : r \in TokenLiteral(nodes, i)}) = 1
              /\ nodes[i].kind = "NumberLiteral" =>
                     Cardinality({r.val : r \in IsValidNumber(nodes, i)}) = 1
       /\ (ret'.op \in {"TokenLiteral", "IsValidNumber"}
             /\ ret'.op = ret.op /\ ret'.self = ret.self) =>
              ret'.val = ret.val /\ ret'.flag = ret.flag]_vars

C7_Witness ==
    /\ ret.op = "String"
    /\ nodes[ret.self].kind = "Object"
    /\ PairCount(nodes[ret.self]) = 2
    /\ \E i \in DOMAIN nodes : nodes[i].kind = "NumberLiteral"
    /\ Len(nodes) = 3

\* C9: Array.String() returns "[]" for every Array, whatever its Elements are,
\* also where an Object's display shows the Array as the value of a pair.
C9_ArrayPlaceholder ==
    /\ \A i \in DOMAIN nodes :
           nodes[i].kind = "Array" => StrVals(nodes, i) = {<<"[", "]">>}
    /\ (ret.op = "String" /\ nodes[ret.self].kind = "Array") => ret.val = << <<"[", "]">> >>
    /\ (ret.op = "String" /\ nodes[ret.self].kind = "Object") =>
           \A k \in DOMAIN nodes[ret.self].Pairs :
               nodes[nodes[ret.self].Pairs[k]].kind = "Array" =>
                   \/ Contains(ret.val[1], k \o <<":", " ", "[", "]", ",">>)
                   \/ Contains(ret.val[1], k \o <<":", " ", "[", "]", "}">>)

C9_Witness ==
    /\ ret.op = "String"
    /\ nodes[ret.self].kind = "Array"
    /\ Len(nodes[ret.self].Elements) = 2
    /\ nodes[nodes[ret.self].Elements[1]].kind # nodes[nodes[ret.self].Elements[2]].kind
    /\ ret.val = << <<"[", "]">> >>

====
